---- MODULE Spec2Model ----
(***************************************************************************)
(* Model of api/app_v2.py (ISD Jobs API): the Lever / Greenhouse adapters  *)
(* with their process-wide TTL cache, collect_jobs' de-duplication,        *)
(* apply_filters' filter-and-rank pipeline and the in-memory bookmark      *)
(* store.                                                                  *)
(*                                                                         *)
(* Strings whose characters matter (board tokens, the texts searched for   *)
(* clearance terms and keywords, posted_at) are sequences of one-character *)
(* strings; URLs, statuses and notes, which the code only compares for     *)
(* equality and truthiness, are atoms.  Python's None is the atom None.    *)
(*                                                                         *)
(* apply_filters is modelled with the block structure its statements       *)
(* describe (lines 295-301 and 317-324 are mis-indented in the file).      *)
(***************************************************************************)
EXTENDS Integers, Sequences, FiniteSets, TLC

VARIABLES CACHE, now, last, flt, BOOKMARKS, resp

vars == <<CACHE, now, last, flt, BOOKMARKS, resp>>

None == "<None>"

\* None where a character string is expected
NoneStr == <<None>>

\* ------------------------------------------------------------------ bounds
TimeStep == 60
MaxTime == 180
MaxJobs == 2

\* --------------------------------------------------------------- utilities
CACHE_TTL == 120

LowerLetters ==
  {"a","b","c","d","e","f","g","h","i","j","k","l","m",
   "n","o","p","q","r","s","t","u","v","w","x","y","z"}

Digits == {"0","1","2","3","4","5","6","7","8","9"}

Whitespace == {" ", "\n", "\t"}

AllIn(s, S) == \A i \in 1..Len(s) : s[i] \in S

\* re.match(r"^[a-z0-9-]+$", t): without re.MULTILINE "$" matches at the
\* end of the string and also just before a newline that ends the string.
TOKEN_RE(t) ==
  LET cls == LowerLetters \cup Digits \cup {"-"}
  IN \/ Len(t) >= 1 /\ AllIn(t, cls)
     \/ Len(t) >= 2 /\ t[Len(t)] = "\n" /\ AllIn(SubSeq(t, 1, Len(t) - 1), cls)

valid_board_token(t) == t # <<>> /\ TOKEN_RE(t)

RECURSIVE Collapse(_)
\* re.sub(r"\s+", " ", s): every run of whitespace becomes one space
Collapse(s) ==
  IF s = <<>> THEN <<>>
  ELSE IF Head(s) \in Whitespace
       THEN IF Len(s) >= 2 /\ s[2] \in Whitespace
            THEN Collapse(Tail(s))
            ELSE <<" ">> \o Collapse(Tail(s))
       ELSE <<Head(s)>> \o Collapse(Tail(s))

RECURSIVE LStrip(_)
LStrip(s) == IF s # <<>> /\ Head(s) \in Whitespace THEN LStrip(Tail(s)) ELSE s

RECURSIVE RStrip(_)
RStrip(s) ==
  IF s # <<>> /\ s[Len(s)] \in Whitespace THEN RStrip(SubSeq(s, 1, Len(s) - 1)) ELSE s

Strip(s) == RStrip(LStrip(s))

\* norm(s): (s or "") with whitespace collapsed and the ends stripped
norm(s) == IF s = NoneStr THEN <<>> ELSE Strip(Collapse(s))

SeqsUpTo(S, n) == UNION {[1..k -> S] : k \in 0..n}

\* Python's "a or b" on URL atoms: None and "" are falsy
PyOr(a, b) == IF a \in {None, ""} THEN b ELSE a

\* ------------------------------------------------------------ ATS fetchers
\* An HTTP exchange: kind "exception" (connection error), "timeout", or
\* "status" with the status code, whether the body parses as JSON, and the
\* parsed body.  A body is a JSON value: t is its type; items are the
\* elements of a list, or of the "jobs" member of an object whose jobsT is
\* "list"; keys are the member names of an object; the items of a string
\* are its characters.  An element is a JSON value too: an object with the members the
\* adapters read, or a non-object (t # "obj").
Item(t, text, hostedUrl, applyUrl, title, absolute_url) ==
  [t |-> t, text |-> text, hostedUrl |-> hostedUrl, applyUrl |-> applyUrl,
   title |-> title, absolute_url |-> absolute_url]

Body(t, items, jobsT, keys) == [t |-> t, items |-> items, jobsT |-> jobsT, keys |-> keys]

Response(kind, status, isJson, body) ==
  [kind |-> kind, status |-> status, isJson |-> isJson, body |-> body]

\* try: requests.get; raise_for_status; r.json()  except Exception: return []
\* TRUE when the try block leaves data bound to the parsed body.
GetOk(r) ==
  /\ r.kind = "status"
  /\ ~(400 <= r.status /\ r.status < 600)
  /\ r.isJson

\* "for item in <value>": the elements Python iterates over, or a TypeError
PyIter(t, items, keys) ==
  CASE t = "list" -> [raised |-> FALSE, elems |-> items]
    [] t = "obj"  -> [raised |-> FALSE,
                      elems |-> [i \in 1..Len(keys) |-> Item("str", NoneStr, None, None, NoneStr, None)]]
    [] t = "str"  -> [raised |-> FALSE,
                      elems |-> [i \in 1..Len(items) |-> Item("str", NoneStr, None, None, NoneStr, None)]]
    [] OTHER      -> [raised |-> TRUE, elems |-> <<>>]

Job(source, company, title, url) ==
  [source |-> source, company |-> company, title |-> title, url |-> url]

\* body of fetch_lever's loop for one item (the fields the aggregator uses)
LeverJob(company, item) ==
  Job("lever", company, norm(item.text), PyOr(item.hostedUrl, PyOr(item.applyUrl, "")))

GreenhouseJob(company, item) ==
  Job("greenhouse", company, norm(item.title), PyOr(item.absolute_url, ""))

\* the loop over the payload: item.get(...) raises AttributeError on an
\* element that is not an object, and the exception leaves the function
LeverLoop(company, data) ==
  LET it == PyIter(data.t, data.items, data.keys)
  IN IF it.raised \/ \E i \in 1..Len(it.elems) : it.elems[i].t # "obj"
     THEN [raised |-> TRUE, jobs |-> <<>>]
     ELSE [raised |-> FALSE,
           jobs |-> [i \in 1..Len(it.elems) |-> LeverJob(company, it.elems[i])]]

\* data.get("jobs", []) needs data to be an object; then the same loop
GreenhouseLoop(company, data) ==
  IF data.t # "obj" THEN [raised |-> TRUE, jobs |-> <<>>]
  ELSE LET it == IF "jobs" \in {data.keys[i] : i \in 1..Len(data.keys)}
                 THEN PyIter(data.jobsT, data.items, <<>>)
                 ELSE [raised |-> FALSE, elems |-> <<>>]
       IN IF it.raised \/ \E i \in 1..Len(it.elems) : it.elems[i].t # "obj"
          THEN [raised |-> TRUE, jobs |-> <<>>]
          ELSE [raised |-> FALSE,
                jobs |-> [i \in 1..Len(it.elems) |-> GreenhouseJob(company, it.elems[i])]]

Put(c, k, v) == [x \in DOMAIN c \cup {k} |-> IF x = k THEN v ELSE c[x]]

\* variant of the freshness test with an inclusive bound
CacheFreshInclusive(c, key, t) == key \in DOMAIN c /\ t - c[key].ts <= CACHE_TTL

CacheFresh(c, key, t) == key \in DOMAIN c /\ t - c[key].ts < CACHE_TTL

\* One call of an adapter: what it returns (or that it raises), how many
\* GETs it issues, whether it looks the key up in CACHE, whether it stores,
\* and CACHE afterwards.
Outcome(result, raised, gets, read, wrote, cache) ==
  [result |-> result, raised |-> raised, gets |-> gets, read |-> read,
   wrote |-> wrote, cache |-> cache]

Fetch(prefix, company, r, c, t, loop) ==
  IF ~valid_board_token(company) THEN Outcome(<<>>, FALSE, 0, FALSE, FALSE, c)
  ELSE LET cache_key == prefix \o company
       IN IF CacheFresh(c, cache_key, t)
          THEN Outcome(c[cache_key].data, FALSE, 0, TRUE, FALSE, c)
          ELSE IF ~GetOk(r) THEN Outcome(<<>>, FALSE, 1, TRUE, FALSE, c)
          ELSE IF loop.raised THEN Outcome(<<>>, TRUE, 1, TRUE, FALSE, c)
          ELSE Outcome(loop.jobs, FALSE, 1, TRUE, TRUE,
                       Put(c, cache_key, [ts |-> t, data |-> loop.jobs]))

LeverPrefix == <<"l","e","v","e","r",":">>

GreenhousePrefix == <<"g","r","e","e","n","h","o","u","s","e",":">>

fetch_lever(company, r, c, t) ==
  Fetch(LeverPrefix, company, r, c, t, LeverLoop(company, r.body))

fetch_greenhouse(company, r, c, t) ==
  Fetch(GreenhousePrefix, company, r, c, t, GreenhouseLoop(company, r.body))

\* -------------------------------------------------------------- aggregator
RECURSIVE DedupeLastSeen(_, _)
\* variant of the de-dupe loop that keeps the last record of each URL
DedupeLastSeen(out, seen) ==
  IF out = <<>> THEN <<>>
  ELSE LET j == Head(out)
           u == j.url
       IN IF u \notin {None, ""} /\ \A k \in 2..Len(out) : out[k].url # u
          THEN <<j>> \o DedupeLastSeen(Tail(out), seen)
          ELSE DedupeLastSeen(Tail(out), seen)

RECURSIVE Dedupe(_, _)
\* the de-dupe loop: seen is the set of URLs already kept
Dedupe(out, seen) ==
  IF out = <<>> THEN <<>>
  ELSE LET j == Head(out)
           u == j.url
       IN IF u \notin {None, ""} /\ u \notin seen
          THEN <<j>> \o Dedupe(Tail(out), seen \cup {u})
          ELSE Dedupe(Tail(out), seen)

RECURSIVE Extend(_, _, _, _, _, _)
\* the two "for c in ...: out.extend(fetch_x(c))" loops, flattened into one
\* list of calls (all Lever identifiers, then all Greenhouse identifiers);
\* rs[i] is the vendor's answer to the i-th call should it reach the
\* network.  An exception raised by an adapter ends collect_jobs.
Extend(calls, rs, i, c, t, acc) ==
  IF i > Len(calls) THEN [acc EXCEPT !.cache = c]
  ELSE LET o == IF calls[i].source = "lever"
                THEN fetch_lever(calls[i].company, rs[i], c, t)
                ELSE fetch_greenhouse(calls[i].company, rs[i], c, t)
       IN IF o.raised
          THEN [acc EXCEPT !.raised = TRUE, !.gets = @ + o.gets, !.cache = o.cache]
          ELSE Extend(calls, rs, i + 1, o.cache, t,
                      [acc EXCEPT !.out = @ \o o.result, !.gets = @ + o.gets,
                                  !.read = @ \/ o.read, !.wrote = @ \/ o.wrote])

collect_jobs(lever, greenhouse, rs, c, t) ==
  LET calls == [i \in 1..Len(lever) |-> [source |-> "lever", company |-> lever[i]]]
               \o [i \in 1..Len(greenhouse) |-> [source |-> "greenhouse", company |-> greenhouse[i]]]
      e == Extend(calls, rs, 1, c, t,
                  [out |-> <<>>, raised |-> FALSE, gets |-> 0, read |-> FALSE,
                   wrote |-> FALSE, cache |-> c])
  IN [e EXCEPT !.out = IF e.raised THEN <<>> ELSE e.out] @@
     [result |-> IF e.raised THEN <<>> ELSE Dedupe(e.out, {})]

\* ------------------------------------------------ adapters as a process
\* Company identifiers a caller may pass: empty, valid, upper case, with a
\* trailing newline, with a space.
Tokens == {<<>>, <<"a">>, <<"A">>, <<"a", "\n">>, <<"a", " ">>}

LeverItem(text, hostedUrl, applyUrl) == Item("obj", text, hostedUrl, applyUrl, NoneStr, None)

GreenhouseItem(title, absolute_url) == Item("obj", NoneStr, None, None, title, absolute_url)

NoBody == Body("null", <<>>, "absent", <<>>)

\* What the vendor endpoint may answer
Responses ==
  { Response("exception", 0, FALSE, NoBody),
    Response("timeout", 0, FALSE, NoBody),
    Response("status", 500, TRUE, Body("list", <<>>, "absent", <<>>)),
    Response("status", 200, FALSE, NoBody),
    Response("status", 200, TRUE, Body("list", <<LeverItem(<<"T", " ">>, "u1", None)>>, "absent", <<>>)),
    Response("status", 200, TRUE, Body("list", <<>>, "absent", <<>>)),
    Response("status", 200, TRUE, Body("list", <<Item("num", NoneStr, None, None, NoneStr, None)>>, "absent", <<>>)),
    Response("status", 200, TRUE, NoBody),
    Response("status", 200, TRUE, Body("obj", <<GreenhouseItem(<<"T">>, "u1")>>, "list", <<"jobs">>)),
    Response("status", 200, TRUE, Body("obj", <<>>, "null", <<"jobs">>)) }

NoCall ==
  [op |-> "none", company |-> <<>>, raised |-> FALSE, gets |-> 0, read |-> FALSE,
   wrote |-> FALSE, result |-> <<>>, out |-> <<>>]

\* the record of the latest call: its argument and its outcome
Call(op, company, o) ==
  [op |-> op, company |-> company, raised |-> o.raised, gets |-> o.gets,
   read |-> o.read, wrote |-> o.wrote, result |-> o.result, out |-> <<>>]

NoFilter == [pc |-> "idle"]

InitFetch ==
  /\ CACHE = <<>>
  /\ now = 0
  /\ last = NoCall
  /\ flt = NoFilter
  /\ BOOKMARKS = <<>>
  /\ resp = <<>>

\* time.time() moves on between calls
Tick ==
  /\ now + TimeStep <= MaxTime
  /\ now' = now + TimeStep
  /\ UNCHANGED <<CACHE, last, flt, BOOKMARKS, resp>>

FetchLever ==
  \E company \in Tokens, r \in Responses :
    \E o \in {fetch_lever(company, r, CACHE, now)} :
       /\ CACHE' = o.cache
       /\ last' = Call("lever", company, o)
       /\ UNCHANGED <<now, flt, BOOKMARKS, resp>>

FetchGreenhouse ==
  \E company \in Tokens, r \in Responses :
    \E o \in {fetch_greenhouse(company, r, CACHE, now)} :
       /\ CACHE' = o.cache
       /\ last' = Call("greenhouse", company, o)
       /\ UNCHANGED <<now, flt, BOOKMARKS, resp>>

NextFetch == Tick \/ FetchLever \/ FetchGreenhouse

SpecFetch == InitFetch /\ [][NextFetch]_vars

\* --------------------------------------------- the aggregator as a process
MaxLever == 2
MaxGreenhouse == 1

LeverLists == SeqsUpTo({<<"a">>, <<"b">>}, MaxLever)

GreenhouseLists == SeqsUpTo({<<"a">>}, MaxGreenhouse)

\* Answers with postings that share URLs within and across boards and
\* postings without a URL
CollectResponses ==
  { Response("timeout", 0, FALSE, NoBody),
    Response("status", 200, TRUE,
             Body("list", <<LeverItem(<<"T">>, "u1", None), LeverItem(<<"N">>, None, None),
                            LeverItem(<<"V">>, None, "u2"), LeverItem(<<"W">>, "u1", "u2")>>,
                  "absent", <<>>)),
    Response("status", 200, TRUE,
             Body("obj", <<GreenhouseItem(<<"X">>, "u2"), GreenhouseItem(<<"Y">>, ""),
                           GreenhouseItem(<<"Z">>, "u1")>>,
                  "list", <<"jobs">>)) }

CollectJobs ==
  \E lever \in LeverLists, greenhouse \in GreenhouseLists :
    \E rs \in [1..(Len(lever) + Len(greenhouse)) -> CollectResponses] :
      \E o \in {collect_jobs(lever, greenhouse, rs, CACHE, now)} :
         /\ CACHE' = o.cache
         /\ last' = [op |-> "collect", company |-> <<>>, raised |-> o.raised,
                     gets |-> o.gets, read |-> o.read, wrote |-> o.wrote,
                     result |-> o.result, out |-> o.out]
         /\ UNCHANGED <<now, flt, BOOKMARKS, resp>>

NextCollect == CollectJobs

SpecCollect == InitFetch /\ [][NextCollect]_vars

\* ------------------------------------------------------- filtering helpers
\* Optional[float] None
NoneNum == 0 - 1000000

UpperLetters == <<"A","B","C","D","E","F","G","H","I","J","K","L","M","N","O","P","Q","R","S","T","U","V","W","X","Y","Z">>

LowerOf == <<"a","b","c","d","e","f","g","h","i","j","k","l","m","n","o","p","q","r","s","t","u","v","w","x","y","z">>

\* str.lower() on one character
LowerChar(c) ==
  IF \E i \in 1..26 : UpperLetters[i] = c
  THEN LowerOf[CHOOSE i \in 1..26 : UpperLetters[i] = c]
  ELSE c

Lower(s) == [i \in 1..Len(s) |-> LowerChar(s[i])]

\* "needle in hay" on strings
Contains(hay, needle) ==
  \E i \in 0..(Len(hay) - Len(needle)) : SubSeq(hay, i + 1, i + Len(needle)) = needle

RECURSIVE Join(_, _)
\* sep.join(parts)
Join(parts, sep) ==
  IF parts = <<>> THEN <<>>
  ELSE IF Len(parts) = 1 THEN parts[1]
  ELSE parts[1] \o sep \o Join(Tail(parts), sep)

\* the characters the model's strings use, in code point order
CodePoints == <<" ","&","-","/","0","1","2","3","4","5","6","7","8","9",":","<",">","A","B","C","D","E","F","G","H","I","J","K","L","M","N","O","P","Q","R","S","T","U","V","W","X","Y","Z","a","b","c","d","e","f","g","h","i","j","k","l","m","n","o","p","q","r","s","t","u","v","w","x","y","z","|">>

Code(c) == CHOOSE i \in 1..Len(CodePoints) : CodePoints[i] = c

RECURSIVE StrLess(_, _)
\* a < b on strings: lexicographic by code point
StrLess(a, b) ==
  IF b = <<>> THEN FALSE
  ELSE IF a = <<>> THEN TRUE
  ELSE IF Head(a) = Head(b) THEN StrLess(Tail(a), Tail(b))
  ELSE Code(Head(a)) < Code(Head(b))

RECURSIVE TextNodes(_, _, _)
\* the text between tags: "<" opens a tag, ">" closes it
TextNodes(text, inTag, cur) ==
  IF text = <<>> THEN <<cur>>
  ELSE IF Head(text) = "<" THEN <<cur>> \o TextNodes(Tail(text), TRUE, <<>>)
  ELSE IF Head(text) = ">" /\ inTag THEN TextNodes(Tail(text), FALSE, <<>>)
  ELSE IF inTag THEN TextNodes(Tail(text), TRUE, <<>>)
  ELSE TextNodes(Tail(text), FALSE, cur \o <<Head(text)>>)

\* BeautifulSoup(text).get_text(" ", strip=True): every text node stripped,
\* the empty ones dropped, the rest joined by one space
strip_html(text) ==
  IF text = <<>> THEN <<>>
  ELSE LET nodes == TextNodes(text, FALSE, <<>>)
           stripped == [i \in 1..Len(nodes) |-> Strip(nodes[i])]
       IN Join(SelectSeq(stripped, LAMBDA n : n # <<>>), <<" ">>)

DEFAULT_CLEARANCES ==
  <<<<"t","s","/","s","c","i">>,
    <<"t","s"," ","/"," ","s","c","i">>,
    <<"t","o","p"," ","s","e","c","r","e","t">>,
    <<"t","s">>,
    <<"s","c","i">>,
    <<"c","i"," ","p","o","l","y">>,
    <<"f","s"," ","p","o","l","y">>,
    <<"f","u","l","l"," ","s","c","o","p","e"," ","p","o","l","y">>,
    <<"s","e","c","r","e","t">>,
    <<"p","u","b","l","i","c"," ","t","r","u","s","t">>,
    <<"s","e","c","u","r","i","t","y"," ","c","l","e","a","r","a","n","c","e">>>>

Sep == <<" ", "|", " ">>

title_matches(title, department, keywords) ==
  LET hay == Lower(title \o Sep \o department)
  IN IF keywords # <<>>
     THEN \E i \in 1..Len(keywords) : Contains(hay, Lower(keywords[i]))
     ELSE TRUE

\* variant of clearance_matches without the fall-back to the default list
clearance_matches_as_configured(texts, allow_list, require) ==
  IF ~require THEN TRUE
  ELSE LET joined == Join(SelectSeq([i \in 1..Len(texts) |-> Lower(texts[i])],
                                    LAMBDA t : t # <<>>), Sep)
       IN \E i \in 1..Len(allow_list) : Contains(joined, Lower(allow_list[i]))

clearance_matches(texts, allow_list, require) ==
  IF ~require THEN TRUE
  ELSE LET joined == Join(SelectSeq([i \in 1..Len(texts) |-> Lower(texts[i])],
                                    LAMBDA t : t # <<>>), Sep)
           keys == IF allow_list # <<>> THEN allow_list ELSE DEFAULT_CLEARANCES
       IN \E i \in 1..Len(keys) : Contains(joined, Lower(keys[i]))

\* ----------------------------------------------------- geocoding (geopy)
\* env is the state of the optional geocoding capability: "missing" (geopy
\* is not installed: Nominatim and geodesic are None), "down" (every
\* geocode call raises) or "up".  Coordinates are whole degrees; Geocoder is
\* the provider's gazetteer and Miles stands for geodesic(...).miles.
NoOrigin == <<>>

Geocoder(name) ==
  CASE name = <<"2","0","1","4","7">> -> <<39, -77>>
    [] name = <<"R","e","s","t","o","n">> -> <<39, -77>>
    [] name = <<"F","r","e","d","e","r","i","c","k">> -> <<40, -77>>
    [] name = <<"D","e","n","v","e","r">> -> <<39, -105>>
    [] OTHER -> NoOrigin

Abs(x) == IF x < 0 THEN 0 - x ELSE x

Miles(a, b) == 60 * (Abs(a[1] - b[1]) + Abs(a[2] - b[2]))

geocode_zip(zip_code, env) ==
  IF env = "missing" THEN NoOrigin
  ELSE IF env = "down" THEN NoOrigin
  ELSE Geocoder(zip_code)

\* variant of inside_radius with a strict comparison
inside_radius_strict(origin, location_name, radius, env) ==
  IF env = "missing" THEN FALSE
  ELSE IF env = "down" THEN FALSE
  ELSE IF Geocoder(location_name) = NoOrigin THEN FALSE
  ELSE Miles(origin, Geocoder(location_name)) < radius

inside_radius(origin, location_name, radius, env) ==
  IF env = "missing" THEN FALSE
  ELSE IF env = "down" THEN FALSE
  ELSE IF Geocoder(location_name) = NoOrigin THEN FALSE
  ELSE Miles(origin, Geocoder(location_name)) <= radius

\* ---------------------------------------------------------- apply_filters
geo_available(env) == env # "missing"

ResolveOrigin(params, env) ==
  IF params.latitude # NoneNum /\ params.longitude # NoneNum
  THEN <<params.latitude, params.longitude>>
  ELSE IF geo_available(env) THEN geocode_zip(params.zip, env)
  ELSE NoOrigin

skip_radius(params, env) == ~geo_available(env) \/ ResolveOrigin(params, env) = NoOrigin

RadiusPasses(j, params, env) ==
  IF params.include_remote /\ j.remote THEN TRUE
  ELSE IF skip_radius(params, env) THEN TRUE
  ELSE ~(j.location = <<>>
         \/ ~inside_radius(ResolveOrigin(params, env), j.location, params.radius, env))

PayTypePasses(j, params) ==
  ~(/\ params.pay_types # <<>>
    /\ Lower(j.pay_type) # <<>>
    /\ \A i \in 1..Len(params.pay_types) : Lower(params.pay_types[i]) # Lower(j.pay_type))

\* variant of the salary test that drops a range touching the floor
SalaryPassesStrict(j, params) ==
  LET lo == j.comp_annual_min
      hi == IF j.comp_annual_max # NoneNum THEN j.comp_annual_max ELSE lo
  IN IF lo # NoneNum
     THEN ~((hi <= params.salary_min) \/ (lo > params.salary_max))
     ELSE TRUE

SalaryPasses(j, params) ==
  LET lo == j.comp_annual_min
      hi == IF j.comp_annual_max # NoneNum THEN j.comp_annual_max ELSE lo
  IN IF lo # NoneNum
     THEN ~((hi < params.salary_min) \/ (lo > params.salary_max))
     ELSE TRUE

\* the loop body for one job: the step that drops it, or "kept"
Verdict(j, params, env) ==
  IF ~title_matches(j.title, j.department, params.keywords) THEN "keyword"
  ELSE IF ~clearance_matches(<<j.title, j.department, j.location, strip_html(j.content_html)>>,
                             params.clearances, params.require_clearance)
       THEN "clearance"
  ELSE IF ~RadiusPasses(j, params, env) THEN "radius"
  ELSE IF ~PayTypePasses(j, params) THEN "pay_type"
  ELSE IF ~SalaryPasses(j, params) THEN "salary"
  ELSE "kept"

\* -(r.get("comp_annual_min") or 0)
NegMin(r) == IF r.comp_annual_min \in {NoneNum, 0} THEN 0 ELSE 0 - r.comp_annual_min

\* variant of the sort key without the company identifier
RankLessNoCompany(a, b) ==
  \/ NegMin(a) < NegMin(b)
  \/ NegMin(a) = NegMin(b) /\ StrLess(a.posted_at, b.posted_at)

\* key(a) < key(b) for the key (-(min or 0), posted_at or "", company or "")
RankLess(a, b) ==
  \/ NegMin(a) < NegMin(b)
  \/ /\ NegMin(a) = NegMin(b)
     /\ \/ StrLess(a.posted_at, b.posted_at)
        \/ a.posted_at = b.posted_at /\ StrLess(a.company, b.company)

RECURSIVE InsertStable(_, _)
\* x goes behind every element that does not sort after it
InsertStable(x, sorted) ==
  IF sorted = <<>> THEN <<x>>
  ELSE IF RankLess(x, Head(sorted)) THEN <<x>> \o sorted
  ELSE <<Head(sorted)>> \o InsertStable(x, Tail(sorted))

RECURSIVE SortStable(_, _)
\* list.sort(key=...): a stable sort
SortStable(todo, sorted) ==
  IF todo = <<>> THEN sorted
  ELSE SortStable(Tail(todo), InsertStable(Head(todo), sorted))

apply_filters(jobs, params, env) ==
  LET verdicts == [i \in 1..Len(jobs) |-> Verdict(jobs[i], params, env)]
      idx == SelectSeq([i \in 1..Len(jobs) |-> i], LAMBDA i : verdicts[i] = "kept")
  IN [verdicts |-> verdicts,
      kept |-> SortStable([k \in 1..Len(idx) |-> jobs[idx[k]]], <<>>)]

\* ------------------------------------------- apply_filters on given inputs
FilterJob(title, department, location, content_html, pay_type, lo, hi, posted_at, company, url) ==
  [title |-> title, department |-> department, location |-> location,
   remote |-> Contains(Lower(location), <<"r","e","m","o","t","e">>),
   content_html |-> content_html, pay_type |-> pay_type,
   comp_annual_min |-> lo, comp_annual_max |-> hi,
   posted_at |-> posted_at, company |-> company, url |-> url]

SearchParams(zip, radius, include_remote, require_clearance, clearances, salary_min, salary_max, pay_types, keywords, latitude, longitude) ==
  [zip |-> zip, radius |-> radius, include_remote |-> include_remote,
   require_clearance |-> require_clearance, clearances |-> clearances,
   salary_min |-> salary_min, salary_max |-> salary_max, pay_types |-> pay_types,
   keywords |-> keywords, latitude |-> latitude, longitude |-> longitude]

BothPayTypes == <<<<"h","o","u","r","l","y">>, <<"s","a","l","a","r","y">>>>

\* jobs and requests that differ in what the remote / radius step reads
RadiusJobs ==
  { FilterJob(<<"T","r","a","i","n","e","r">>, <<"L","&","D">>, loc, <<>>, <<>>, NoneNum, NoneNum, <<>>, <<"a">>, "u1") :
      loc \in {<<>>, <<"R","e","m","o","t","e">>, <<"R","e","s","t","o","n">>, <<"F","r","e","d","e","r","i","c","k">>, <<"D","e","n","v","e","r">>, <<"A","t","l","a","n","t","i","s">>} }

RadiusParams ==
  { SearchParams(zip, radius, ir, FALSE, <<>>, 100000, 1000000, BothPayTypes, <<>>,
                 ll[1], ll[2]) :
      zip \in {<<"2","0","1","4","7">>, <<"0","0","0","0","0">>}, radius \in {50, 60}, ir \in BOOLEAN,
      ll \in {<<NoneNum, NoneNum>>, <<39, -77>>, <<0, -77>>, <<39, NoneNum>>} }

GeoEnvs == {"missing", "down", "up"}

\* jobs and requests that differ in what the pay-type and salary steps read
SalaryJobs ==
  { FilterJob(<<"T","r","a","i","n","e","r">>, <<"L","&","D">>, <<"R","e","s","t","o","n">>, <<>>, c[3], c[1], c[2], <<>>, <<"a">>, "u1") :
      c \in { <<NoneNum, NoneNum, <<>> >>, <<NoneNum, NoneNum, <<"h","o","u","r","l","y">>>>,
              <<90000, NoneNum, <<"s","a","l","a","r","y">>>>, <<90000, 100000, <<"s","a","l","a","r","y">>>>,
              <<90000, 150000, <<"s","a","l","a","r","y">>>>, <<150000, NoneNum, <<"h","o","u","r","l","y">>>>,
              <<200000, 250000, <<"s","a","l","a","r","y">>>>, <<250000, 300000, <<"s","a","l","a","r","y">>>> } }

SalaryParams ==
  { SearchParams(<<"2","0","1","4","7">>, 50, TRUE, FALSE, <<>>, s[1], s[2], pt, <<>>, NoneNum, NoneNum) :
      s \in {<<100000, 200000>>, <<0, 1000000>>, <<160000, 180000>>},
      pt \in {BothPayTypes, <<<<"S","a","l","a","r","y">>>>, <<>>} }

\* jobs and requests that differ in what the keyword and clearance steps read
ClearanceJobs ==
  { FilterJob(t, d, <<"R","e","s","t","o","n">>, c, <<>>, NoneNum, NoneNum, <<>>, <<"a">>, "u1") :
      t \in {<<"T","r","a","i","n","e","r">>, <<"D","e","v">>}, d \in {<<"L","&","D">>, <<"T","S","/","S","C","I">>},
      c \in {<<>>, <<"<","b",">","S","e","c","r","e","t","<","/","b",">"," ","c","l","e","a","r","a","n","c","e"," ","r","e","q","u","i","r","e","d">>, <<"S","e","<","i",">","c","r","e","t","<","/","i",">">>} }

ClearanceParams ==
  { SearchParams(<<"2","0","1","4","7">>, 50, TRUE, rc, cl, 100000, 1000000, BothPayTypes, kw,
                 NoneNum, NoneNum) :
      rc \in BOOLEAN, cl \in {<<>>, <<<<"s","e","c","r","e","t">>>>, <<<<"T","S">>>>, <<<<"n","a","t","o">>, <<"S","e","c","r","e","t"," ">>>>},
      kw \in {<<>>, <<<<"t","r","a","i","n">>>>} }

\* jobs that differ in what the ranking reads
RankJobs ==
  { FilterJob(<<"T","r","a","i","n","e","r">>, <<"L","&","D">>, <<"R","e","s","t","o","n">>, <<>>, <<>>, lo, NoneNum, p, co, u) :
      lo \in {NoneNum, 120000, 150000}, p \in {<<>>, <<"2","0","2","3","-","1","2","-","3","1">>, <<"2","0","2","4","-","0","1","-","0","2">>},
      co \in {<<"a">>, <<"b">>}, u \in {"u1", "u2"} }

RankParams ==
  { SearchParams(<<"2","0","1","4","7">>, 50, TRUE, FALSE, <<>>, 100000, 1000000, BothPayTypes, <<>>,
                 NoneNum, NoneNum) }

FilterInput(jobs, params, env) ==
  [pc |-> "input", jobs |-> jobs, params |-> params, env |-> env,
   verdicts |-> <<>>, kept |-> <<>>]

InitFilter ==
  /\ CACHE = <<>>
  /\ now = 0
  /\ last = NoCall
  /\ BOOKMARKS = <<>>
  /\ resp = <<>>
  /\ \/ \E jobs \in SeqsUpTo(RadiusJobs, MaxJobs), params \in RadiusParams, env \in GeoEnvs :
          flt = FilterInput(jobs, params, env)
     \/ \E jobs \in SeqsUpTo(SalaryJobs, MaxJobs), params \in SalaryParams :
          flt = FilterInput(jobs, params, "up")
     \/ \E jobs \in SeqsUpTo(ClearanceJobs, MaxJobs), params \in ClearanceParams :
          flt = FilterInput(jobs, params, "up")
     \/ \E jobs \in SeqsUpTo(RankJobs, MaxJobs), params \in RankParams :
          flt = FilterInput(jobs, params, "up")

ApplyFilters ==
  /\ flt.pc = "input"
  /\ \E o \in {apply_filters(flt.jobs, flt.params, flt.env)} :
       flt' = [flt EXCEPT !.pc = "done", !.verdicts = o.verdicts, !.kept = o.kept]
  /\ UNCHANGED <<CACHE, now, last, BOOKMARKS, resp>>

NextFilter == ApplyFilters

SpecFilter == InitFilter /\ [][NextFilter]_vars

\* --------------------------------------------------------------- bookmarks
\* BookmarkIn: url, status, notes.  updated_at is the clock reading that
\* datetime.utcnow().isoformat() renders.
BookmarkIn(url, status, notes) == [url |-> url, status |-> status, notes |-> notes]

Reply(op, bm, code) ==
  [op |-> op, url |-> bm.url, status |-> bm.status, notes |-> bm.notes, code |-> code]

add_bookmark(bm, B, t) ==
  [code |-> 200,
   store |-> Put(B, bm.url, [url |-> bm.url, status |-> bm.status, notes |-> bm.notes,
                             updated_at |-> t])]

\* variant of update_bookmark that creates the bookmark when it is missing
update_bookmark_upsert(bm, B, t) ==
  [code |-> 200,
   store |-> Put(B, bm.url, [url |-> bm.url, status |-> bm.status, notes |-> bm.notes,
                             updated_at |-> t])]

update_bookmark(bm, B, t) ==
  IF bm.url \notin DOMAIN B THEN [code |-> 404, store |-> B]
  ELSE [code |-> 200,
        store |-> [B EXCEPT ![bm.url].status = bm.status, ![bm.url].notes = bm.notes,
                            ![bm.url].updated_at = t]]

Urls == {"", "u1", "u2"}

Statuses == {"", "applied"}

Notes == {"", "call back"}

Requests == {BookmarkIn(u, st, n) : u \in Urls, st \in Statuses, n \in Notes}

InitBookmarks ==
  /\ CACHE = <<>>
  /\ now = 0
  /\ last = NoCall
  /\ flt = NoFilter
  /\ BOOKMARKS = <<>>
  /\ resp = <<>>

AddBookmark ==
  \E bm \in Requests :
    \E o \in {add_bookmark(bm, BOOKMARKS, now)} :
      /\ BOOKMARKS' = o.store
      /\ resp' = Reply("post", bm, o.code)
      /\ UNCHANGED <<CACHE, now, last, flt>>

UpdateBookmark ==
  \E bm \in Requests :
    \E o \in {update_bookmark(bm, BOOKMARKS, now)} :
      /\ BOOKMARKS' = o.store
      /\ resp' = Reply("patch", bm, o.code)
      /\ UNCHANGED <<CACHE, now, last, flt>>

NextBookmarks == AddBookmark \/ UpdateBookmark \/ Tick

SpecBookmarks == InitBookmarks /\ [][NextBookmarks]_vars

\* ================================================================= claims
IsFetch(l) == l.op \in {"lever", "greenhouse"}

KeyOf(l) == (IF l.op = "lever" THEN LeverPrefix ELSE GreenhousePrefix) \o l.company

EmptyUrlCount(js) == Cardinality({i \in 1..Len(js) : js[i].url = ""})

\* C1: collect_jobs' de-duplication retains every record whose URL is
\* empty: as many empty-URL records leave it as entered it.
C1_EmptyUrlRetained ==
  (last.op = "collect" /\ ~last.raised) =>
     EmptyUrlCount(last.result) = EmptyUrlCount(last.out)

\* C2: for each non-empty URL of the concatenated list the output holds
\* exactly one record with that URL, the first one in concatenation order
\* (Lever records before Greenhouse records); the survivors keep their
\* relative input order.
C2_FirstSeenWins ==
  (last.op = "collect" /\ ~last.raised) =>
     LET out == last.out
         res == last.result
         First(u) == CHOOSE i \in 1..Len(out) :
                       out[i].url = u /\ \A j \in 1..(i - 1) : out[j].url # u
     IN /\ \A i \in 1..Len(out) :
             out[i].url # "" =>
               /\ Cardinality({k \in 1..Len(res) : res[k].url = out[i].url}) = 1
               /\ \A k \in 1..Len(res) :
                     res[k].url = out[i].url => res[k] = out[First(out[i].url)]
        /\ \E f \in [1..Len(res) -> 1..Len(out)] :
             /\ \A k \in 1..Len(res) : res[k] = out[f[k]]
             /\ \A k \in 1..(Len(res) - 1) : f[k] < f[k + 1]
        /\ \A i \in 1..Len(out) : \A j \in (i + 1)..Len(out) :
             out[i].source = "greenhouse" => out[j].source = "greenhouse"

\* a run in which a Lever and a Greenhouse record share a URL and the
\* de-duplication dropped records
C2_Witness ==
  /\ last.op = "collect" /\ ~last.raised
  /\ \E i, j \in 1..Len(last.out) :
       /\ last.out[i].source = "lever" /\ last.out[j].source = "greenhouse"
       /\ last.out[i].url = last.out[j].url /\ last.out[i].url # ""
  /\ Len(last.result) = 2

\* C3: an identifier that is not a non-empty string of lowercase letters,
\* digits and hyphens causes no network request, contributes an empty list
\* and touches no cache entry.
C3_InvalidTokenNoNetwork ==
  (IsFetch(last) /\ ~(last.company # <<>> /\
                       AllIn(last.company, LowerLetters \cup Digits \cup {"-"}))) =>
     /\ last.gets = 0
     /\ last.result = <<>>
     /\ ~last.read /\ ~last.wrote

\* C4: whatever the upstream call yields, fetch_lever and fetch_greenhouse
\* return a list and do not raise.
C4_AdaptersNeverRaise == IsFetch(last) => ~last.raised

\* C10: a call for a valid identifier whose key was stored less than 120
\* seconds ago returns the stored records without a GET; otherwise it
\* issues exactly one GET; a fetch that fails stores nothing; a store
\* stamps the entry with the time of the call; entries of other keys are
\* untouched.
C10_CacheTTL ==
  [][(now' = now /\ IsFetch(last') /\ valid_board_token(last'.company)) =>
       LET k == KeyOf(last')
           stored == k \in DOMAIN CACHE
       IN /\ (stored /\ now - CACHE[k].ts < 120) =>
               /\ last'.gets = 0 /\ ~last'.raised
               /\ last'.result = CACHE[k].data
               /\ CACHE' = CACHE
          /\ (~stored \/ now - CACHE[k].ts >= 120) => last'.gets = 1
          /\ (last'.gets = 1 /\ ~last'.wrote) => CACHE' = CACHE
          /\ last'.wrote =>
               /\ last'.gets = 1
               /\ CACHE'[k] = [ts |-> now, data |-> last'.result]
          /\ \A k2 \in DOMAIN CACHE \ {k} : k2 \in DOMAIN CACHE' /\ CACHE'[k2] = CACHE[k2]
          /\ DOMAIN CACHE' \subseteq DOMAIN CACHE \cup {k}
    ]_vars

\* an entry stored after an earlier one expired is served from the cache
\* at a later time
C10_Witness ==
  /\ IsFetch(last) /\ valid_board_token(last.company)
  /\ last.gets = 0 /\ last.read /\ last.result # <<>>
  /\ KeyOf(last) \in DOMAIN CACHE
  /\ CACHE[KeyOf(last)].ts >= CACHE_TTL
  /\ now > CACHE[KeyOf(last)].ts

Done == flt.pc = "done"

ExplicitOrigin(p) == p.latitude # NoneNum /\ p.longitude # NoneNum

\* origin coordinates are resolvable: given in the request, or the zip geocodes
OriginResolvable(p, env) ==
  ExplicitOrigin(p) \/ (env = "up" /\ Geocoder(p.zip) # NoOrigin)

OriginOf(p) == IF ExplicitOrigin(p) THEN <<p.latitude, p.longitude>> ELSE Geocoder(p.zip)

\* the job's location is non-empty and resolves within the radius of the origin
WithinRadius(j, p, env) ==
  /\ j.location # <<>>
  /\ env = "up"
  /\ Geocoder(j.location) # NoOrigin
  /\ Miles(OriginOf(p), Geocoder(j.location)) <= p.radius

ReachesRadiusStep(i) == flt.verdicts[i] \notin {"keyword", "clearance"}

\* C5 as stated: a job passes the remote / radius step iff it is remote and
\* remote is allowed, or radius filtering is disabled, or its location
\* resolves within the radius; radius filtering is disabled exactly when no
\* origin coordinates are resolvable.
C5_DisabledIffNoOrigin ==
  Done =>
    \A i \in 1..Len(flt.jobs) :
      ReachesRadiusStep(i) =>
        (flt.verdicts[i] # "radius" <=>
           \/ flt.params.include_remote /\ flt.jobs[i].remote
           \/ ~OriginResolvable(flt.params, flt.env)
           \/ WithinRadius(flt.jobs[i], flt.params, flt.env))

\* C5 amended: the same, with radius filtering disabled exactly when the
\* geocoding library is missing or no origin coordinates are resolvable.
C5_DisabledIffNoGeoOrNoOrigin ==
  Done =>
    \A i \in 1..Len(flt.jobs) :
      ReachesRadiusStep(i) =>
        (flt.verdicts[i] # "radius" <=>
           \/ flt.params.include_remote /\ flt.jobs[i].remote
           \/ flt.env = "missing"
           \/ ~OriginResolvable(flt.params, flt.env)
           \/ WithinRadius(flt.jobs[i], flt.params, flt.env))

\* with geopy missing and explicit coordinates, a job that is not remote
\* and lies far from the origin went through the step
C5_Witness ==
  /\ Done
  /\ flt.env = "missing" /\ ExplicitOrigin(flt.params)
  /\ \E i \in 1..Len(flt.jobs) :
       /\ flt.verdicts[i] = "kept"
       /\ flt.jobs[i].location = <<"D","e","n","v","e","r">>
       /\ ~flt.jobs[i].remote

\* C6: a job with a known minimum is dropped by the salary step exactly
\* when hi < salary_min or min > salary_max, hi being the maximum or, when
\* that is missing, the minimum; a job with no compensation at all passes.
C6_SalaryOverlap ==
  Done =>
    \A i \in 1..Len(flt.jobs) :
      flt.verdicts[i] \in {"salary", "kept"} =>
        LET lo == flt.jobs[i].comp_annual_min
            mx == flt.jobs[i].comp_annual_max
            hi == IF mx = NoneNum THEN lo ELSE mx
        IN /\ lo # NoneNum =>
                (flt.verdicts[i] = "salary" <=>
                   (hi < flt.params.salary_min \/ lo > flt.params.salary_max))
           /\ (lo = NoneNum /\ mx = NoneNum) => flt.verdicts[i] = "kept"

\* the job with minimum 90000 and no maximum is dropped under a floor of
\* 100000, next to a job without compensation that is kept
C6_Witness ==
  /\ Done
  /\ flt.params.salary_min = 100000 /\ flt.params.salary_max = 200000
  /\ \E i, k \in 1..Len(flt.jobs) :
       /\ flt.jobs[i].comp_annual_min = 90000
       /\ flt.jobs[i].comp_annual_max = NoneNum
       /\ flt.verdicts[i] = "salary"
       /\ flt.jobs[k].comp_annual_min = NoneNum
       /\ flt.verdicts[k] = "kept"

\* title, department, location and stripped description, lower-cased and joined
ClearanceText(j) ==
  Join(SelectSeq(<<Lower(j.title), Lower(j.department), Lower(j.location),
                   Lower(strip_html(j.content_html))>>, LAMBDA t : t # <<>>), Sep)

HasTerm(j, terms) == \E k \in 1..Len(terms) : Contains(ClearanceText(j), Lower(terms[k]))

\* C7 as stated: with require_clearance a job is kept by the clearance
\* step iff its text contains a term of the configured list, whatever the
\* list, the empty one included; without it every job passes.
C7_ConfiguredTermsOnly ==
  Done =>
    \A i \in 1..Len(flt.jobs) :
      flt.verdicts[i] # "keyword" =>
        IF flt.params.require_clearance
        THEN flt.verdicts[i] # "clearance" <=> HasTerm(flt.jobs[i], flt.params.clearances)
        ELSE flt.verdicts[i] # "clearance"

\* C7 amended: the terms are those of the configured list, or those of
\* DEFAULT_CLEARANCES when the configured list is empty.
C7_ConfiguredOrDefaultTerms ==
  Done =>
    \A i \in 1..Len(flt.jobs) :
      flt.verdicts[i] # "keyword" =>
        IF flt.params.require_clearance
        THEN flt.verdicts[i] # "clearance" <=>
               HasTerm(flt.jobs[i], IF flt.params.clearances = <<>>
                                    THEN DEFAULT_CLEARANCES ELSE flt.params.clearances)
        ELSE flt.verdicts[i] # "clearance"

\* clearance required with an empty list: a job that mentions a default
\* term is kept and one that mentions none is dropped
C7_Witness ==
  /\ Done
  /\ flt.params.require_clearance /\ flt.params.clearances = <<>>
  /\ \E i, k \in 1..Len(flt.jobs) :
       /\ flt.verdicts[i] = "kept" /\ HasTerm(flt.jobs[i], <<<<"s","e","c","r","e","t">>>>)
       /\ flt.verdicts[k] = "clearance"

MinOrZero(j) == IF j.comp_annual_min = NoneNum THEN 0 ELSE j.comp_annual_min

\* a ranks before b: higher minimum, then earlier posted_at, then smaller company
RanksBefore(a, b) ==
  \/ MinOrZero(a) > MinOrZero(b)
  \/ MinOrZero(a) = MinOrZero(b) /\ StrLess(a.posted_at, b.posted_at)
  \/ MinOrZero(a) = MinOrZero(b) /\ a.posted_at = b.posted_at /\ StrLess(a.company, b.company)

RanksEqual(a, b) ==
  MinOrZero(a) = MinOrZero(b) /\ a.posted_at = b.posted_at /\ a.company = b.company

\* C8: the result is a permutation of the surviving jobs, ordered by
\* descending minimum (unknown as 0), ascending posted_at, ascending
\* company; jobs equal on all three keep their input order.
C8_StableRanking ==
  Done =>
    LET surv == {i \in 1..Len(flt.jobs) : flt.verdicts[i] = "kept"}
        n == Len(flt.kept)
    IN /\ n = Cardinality(surv)
       /\ \E p \in [1..n -> surv] :
            /\ \A k, l \in 1..n : k # l => p[k] # p[l]
            /\ \A k \in 1..n : flt.kept[k] = flt.jobs[p[k]]
            /\ \A k, l \in 1..n :
                 k < l => \/ RanksBefore(flt.jobs[p[k]], flt.jobs[p[l]])
                          \/ RanksEqual(flt.jobs[p[k]], flt.jobs[p[l]]) /\ p[k] < p[l]

\* two jobs equal in compensation and posted_at came out in the reverse of
\* their input order, by company
C8_Witness ==
  /\ Done
  /\ Len(flt.jobs) >= 2 /\ Len(flt.kept) = Len(flt.jobs)
  /\ flt.kept[1] = flt.jobs[2]
  /\ flt.jobs[1].comp_annual_min = flt.jobs[2].comp_annual_min
  /\ flt.jobs[1].posted_at = flt.jobs[2].posted_at
  /\ flt.jobs[1].posted_at # <<>>
  /\ flt.jobs[1].company = <<"b">> /\ flt.jobs[2].company = <<"a">>

\* C9: a PATCH for a URL that is not a key of the store answers 404 and
\* leaves the store as it was; a PATCH for a key answers 200 and changes
\* only that bookmark's status, notes and updated_at.
C9_PatchUnknownIs404 ==
  [][(now' = now /\ resp'.op = "patch") =>
       /\ resp'.url \notin DOMAIN BOOKMARKS =>
            resp'.code = 404 /\ BOOKMARKS' = BOOKMARKS
       /\ resp'.url \in DOMAIN BOOKMARKS =>
            /\ resp'.code = 200
            /\ DOMAIN BOOKMARKS' = DOMAIN BOOKMARKS
            /\ \A u \in DOMAIN BOOKMARKS \ {resp'.url} : BOOKMARKS'[u] = BOOKMARKS[u]
            /\ BOOKMARKS'[resp'.url] =
                 [url |-> resp'.url, status |-> resp'.status, notes |-> resp'.notes,
                  updated_at |-> now]
    ]_vars

\* a PATCH for an unknown URL answered 404 while other bookmarks exist
C9_Witness ==
  /\ resp # <<>>
  /\ resp.op = "patch" /\ resp.code = 404
  /\ resp.url \notin DOMAIN BOOKMARKS
  /\ BOOKMARKS # <<>>

====
